---- MODULE Spec2Model ----
(***************************************************************************)
(* Model of ci/translate/translate.go: the pipeline                        *)
(*   loadTranslationFile -> autoTranslate -> saveTranslationFile ->        *)
(*   renderJSFile                                                          *)
(* over a dictionary file on disk, its in-memory translationFile, the      *)
(* temporary file of the save and the DeepL HTTP exchange.                 *)
(***************************************************************************)
EXTENDS Integers, Sequences, FiniteSets, TLC

----------------------------------------------------------------------------
(* Bounds of the model.                                                    *)

\* Longest reference sequence ([]any value) of the dictionary.
MaxSeqLen == 2

\* Language keys of tf.Translations, and the translation keys.
Langs == {"de", "fr"}
Keys == {"k1", "k2"}

\* LanguageKey and DeeplLanguage of the reference entry.
RefLang == "en"

----------------------------------------------------------------------------
(* Texts.  A text is a pair <<origin, token>>: the reference texts have    *)
(* origin "src", a text a translator wrote by hand has origin "old", and   *)
(* the text DeepL answers for target_lang L has origin L.                  *)

ScalarText == <<"src", "s0">>
ElemText(i) == <<"src", <<"e1", "e2", "e3", "e4">>[i]>>
OldText == <<"old", "x">>

\* strings.ToUpper on the language codes of the request.
ToUpper(code) ==
    CASE code = "de" -> "DE"
      [] code = "fr" -> "FR"
      [] code = "en" -> "EN"
      [] OTHER -> code

\* What a working DeepL answers for one text.
Translate(srcLang, destLang, text) == <<destLang, text[2]>>

----------------------------------------------------------------------------
(* YAML nodes of the dictionary file.                                      *)

DNull == [y |-> "null"]
DStr(s) == [y |-> "str", v |-> s]
DInt == [y |-> "int", v |-> <<"int", "42">>]
DSeq(es) == [y |-> "seq", elems |-> es]

\* A `translations:` node: missing / null, or a mapping key -> node.
DNoMap == [present |-> FALSE, m |-> <<>>]
DMap(m) == [present |-> TRUE, m |-> m]

(* Go values of a translation (map[string]any).                            *)

NilV == [t |-> "nil"]
StringV(s) == [t |-> "string", v |-> s]
IntV == [t |-> "int", v |-> <<"int", "42">>]
\* []any, as yaml decodes a sequence: elems are StringV / IntV values.
AnysV(es) == [t |-> "anys", elems |-> es]
\* []string, as autoTranslateKeyForLang stores it: elems are texts.  The nil
\* slice (no append happened) is the one with no elements.
StringsV(ss) == [t |-> "strings", elems |-> ss]

\* translation (map[string]any): the nil map, or a map.
NilMap == [isNil |-> TRUE, m |-> <<>>]
GoMap(m) == [isNil |-> FALSE, m |-> m]

\* m[key] of a Go map: the zero value (nil) when the map is nil or has no key.
Lookup(tr, key) == IF key \in DOMAIN tr.m THEN tr.m[key] ELSE NilV

----------------------------------------------------------------------------
(* yaml Decode into translationFile / Encode of it.                        *)

DecodeValue(d) ==
    CASE d.y = "null" -> NilV
      [] d.y = "str" -> StringV(d.v)
      [] d.y = "int" -> IntV
      [] d.y = "seq" ->
            AnysV([i \in 1..Len(d.elems) |->
                     IF d.elems[i].y = "str" THEN StringV(d.elems[i].v) ELSE IntV])

DecodeMap(dm) ==
    IF dm.present
    THEN GoMap([k \in DOMAIN dm.m |-> DecodeValue(dm.m[k])])
    ELSE NilMap

DecodeMapping(e) ==
    [DeeplLanguage |-> e.deeplLanguage,
     LanguageKey |-> e.languageKey,
     Translations |-> DecodeMap(e.translations)]

Decode(doc) ==
    [Reference |-> DecodeMapping(doc.reference),
     Translations |-> [l \in DOMAIN doc.translations |->
                          DecodeMapping(doc.translations[l])]]

EncodeValue(v) ==
    CASE v.t = "nil" -> DNull
      [] v.t = "string" -> DStr(v.v)
      [] v.t = "int" -> DInt
      [] v.t = "anys" ->
            DSeq([i \in 1..Len(v.elems) |->
                    IF v.elems[i].t = "string" THEN DStr(v.elems[i].v) ELSE DInt])
      [] v.t = "strings" ->
            DSeq([i \in 1..Len(v.elems) |-> DStr(v.elems[i])])

\* `translations` has no omitempty: a nil map is written as the empty mapping.
EncodeMap(tr) == DMap([k \in DOMAIN tr.m |-> EncodeValue(tr.m[k])])

EncodeMapping(e) ==
    [deeplLanguage |-> e.DeeplLanguage,
     languageKey |-> e.LanguageKey,
     translations |-> EncodeMap(e.Translations)]

Encode(t) ==
    [reference |-> EncodeMapping(t.Reference),
     translations |-> [l \in DOMAIN t.Translations |->
                          EncodeMapping(t.Translations[l])]]

----------------------------------------------------------------------------
(* The dictionary files a run may find on disk.                            *)

\* Sequences of the reference: element i is the text of position i; a node
\* that is not a text, when there is one, is the last element.
RefSeqs ==
    {[i \in 1..n |-> "text"] : n \in 0..MaxSeqLen}
      \cup {[i \in 1..n |-> IF i = n THEN "other" ELSE "text"] : n \in 1..MaxSeqLen}

RefSeqNode(shape) ==
    DSeq([i \in 1..Len(shape) |->
            IF shape[i] = "text" THEN DStr(ElemText(i)) ELSE DInt])

RefNodes == {DStr(ScalarText), DInt} \cup {RefSeqNode(s) : s \in RefSeqs}

\* What a target entry may hold under a key: a text a translator wrote, or,
\* in one place of the file (the code tells neither languages nor keys
\* apart), a null (`key:` with no value).
NullLang == "de"
NullKey == "k1"
TargetNodes(l, k) ==
    IF l = NullLang /\ k = NullKey THEN {DStr(OldText), DNull} ELSE {DStr(OldText)}

PartialMaps(nodes) ==
    UNION {[ks -> nodes] : ks \in SUBSET Keys}

TargetMaps(l) ==
    {m \in PartialMaps({DStr(OldText), DNull}) : \A k \in DOMAIN m : m[k] \in TargetNodes(l, k)}

RefEntries ==
    {[deeplLanguage |-> RefLang, languageKey |-> RefLang, translations |-> DMap(m)] :
        m \in PartialMaps(RefNodes)}

TargetEntries(l) ==
    {[deeplLanguage |-> c, languageKey |-> l, translations |-> tr] :
        c \in {"", l},
        tr \in {DNoMap} \cup {DMap(m) : m \in TargetMaps(l)}}

Docs ==
    {[reference |-> r, translations |-> ts] :
        r \in RefEntries,
        ts \in {f \in [Langs -> UNION {TargetEntries(l) : l \in Langs}] :
                   \A l \in Langs : f[l] \in TargetEntries(l)}}

\* A file: not there, holding a document, or holding a cut-off document.
NoFile == [state |-> "absent"]
DocFile(doc) == [state |-> "doc", doc |-> doc]
PartialFile == [state |-> "partial"]

----------------------------------------------------------------------------
(* The DeepL exchange of fetchTranslation.                                 *)

EmptyText == <<"", "">>

\* What http.DefaultClient.Do and the body can be for one request: the
\* transport failed (or ran into deeplRequestTimeout), or a response with a
\* status, a body that is JSON or not, and the texts of "translations".
TransportFailure ==
    [transport |-> "fail", status |-> 0, json |-> FALSE, texts |-> <<>>]

HTTPResponse(status, json, texts) ==
    [transport |-> "ok", status |-> status, json |-> json, texts |-> texts]

\* The request fetchTranslation posts: the language codes in upper case.
Request(srcLang, destLang, text) ==
    [src |-> ToUpper(srcLang), dest |-> ToUpper(destLang), text |-> text]

Responses(rq) ==
    LET t == Translate(rq.src, rq.dest, rq.text) IN
    {TransportFailure}
      \cup {HTTPResponse(st, FALSE, <<>>) : st \in {200, 500}}
      \cup {HTTPResponse(st, TRUE, txts) : st \in {200, 500}, txts \in {<<>>, <<t>>, <<t, t>>}}

\* fetchTranslation against the response r: [err, text].
FetchTranslation(srcLang, destLang, text, r) ==
    IF r.transport # "ok" THEN [err |-> "executing request", text |-> EmptyText]
    ELSE IF ~r.json THEN [err |-> "decoding DeepL response", text |-> EmptyText]
    ELSE IF Len(r.texts) # 1
         THEN [err |-> "unexpected number of translations", text |-> EmptyText]
    ELSE [err |-> "", text |-> r.texts[1]]

----------------------------------------------------------------------------
VARIABLES
    disk,        \* cfg.TranslationFile
    tmp,         \* cfg.TranslationFile + ".tmp"
    artifact,    \* cfg.OutputFile
    apiKey,      \* cfg.DeeplAPIKey
    server,      \* how the DeepL endpoint behaves
    pc,          \* where main is
    exit,        \* how the process ended
    tf,          \* the translationFile of main
    keys,        \* autoTranslate: the collected keys, in range order
    langsLeft,   \* autoTranslate: languages the range has not yielded yet
    lang,        \* autoTranslate: the language of the current iteration
    ki,          \* autoTranslate: index into keys
    ts,          \* autoTranslateKeyForLang: the []string being built
    ei,          \* autoTranslateKeyForLang: index into typedSrc
    calls,       \* <<lang, key>> for which fetchTranslation was called
    skipped,     \* languages warned about and skipped
    stages,      \* stages main started, in order
    disk0,       \* the dictionary file as the process found it
    prevSynced,  \* the previous process synced and persisted
    req, resp, ret   \* one fetchTranslation on its own: request, response, return

vars == <<disk, tmp, artifact, apiKey, server, pc, exit, tf, keys, langsLeft,
          lang, ki, ts, ei, calls, skipped, stages, disk0, prevSynced,
          req, resp, ret>>

fsVars == <<disk, tmp, artifact>>
loopVars == <<keys, langsLeft, lang, ki, ts, ei>>
fetchVars == <<req, resp, ret>>
cfgVars == <<apiKey, disk0, prevSynced>>

Unloaded == [loaded |-> FALSE]
NoExit == [kind |-> "none", stage |-> "", lang |-> "", key |-> ""]
NoRequest == [src |-> "", dest |-> "", text |-> EmptyText]
NoReturn == [err |-> "none", text |-> EmptyText]

\* The DeepL endpoint: free to answer every call as it likes, or a stub whose
\* answer to a request is the same every time it is asked (memo holds the
\* answers given so far).
AnyServer == [mode |-> "any", memo |-> {}]
StubServer == [mode |-> "stub", memo |-> {}]

\* A stub translates a request or is down for it.
StubResponses(rq) ==
    {HTTPResponse(200, TRUE, <<Translate(rq.src, rq.dest, rq.text)>>),
     HTTPResponse(500, TRUE, <<>>)}

ServerAnswers(rq) ==
    IF server.mode = "any" THEN Responses(rq)
    ELSE IF \E p \in server.memo : p[1] = rq
         THEN {p[2] : p \in {q \in server.memo : q[1] = rq}}
         ELSE StubResponses(rq)

Remember(rq, r) ==
    IF server.mode = "any" THEN server
    ELSE [server EXCEPT !.memo = @ \cup {<<rq, r>>}]

Perms(S) ==
    {f \in [1..Cardinality(S) -> S] : \A i, j \in 1..Cardinality(S) : f[i] = f[j] => i = j}

InitLocals ==
    /\ pc = "load" /\ exit = NoExit /\ tf = Unloaded
    /\ keys = <<>> /\ langsLeft = {} /\ lang = "" /\ ki = 0 /\ ts = <<>> /\ ei = 0
    /\ calls = {} /\ skipped = {} /\ stages = <<>>
    /\ req = NoRequest /\ resp = TransportFailure /\ ret = NoReturn

Init ==
    /\ disk \in {DocFile(d) : d \in Docs}
    /\ tmp = NoFile /\ artifact = NoFile
    /\ apiKey \in {"", "key"}
    /\ server = AnyServer
    /\ disk0 = disk /\ prevSynced = FALSE
    /\ InitLocals

\* The same runs against a stub translation client.
InitStub ==
    /\ disk \in {DocFile(d) : d \in Docs}
    /\ tmp = NoFile /\ artifact = NoFile
    /\ apiKey \in {"", "key"}
    /\ server = StubServer
    /\ disk0 = disk /\ prevSynced = FALSE
    /\ InitLocals

\* Mutant of Fatal: the error of autoTranslate is logged and main goes on.
Fatal_SyncErrorLogged(stage, l, k) ==
    /\ pc' = IF stage = "sync" THEN "save" ELSE "exit"
    /\ exit' = [kind |-> "fatal", stage |-> stage, lang |-> l, key |-> k]

\* logrus.Fatal in main (os.Exit(1)): the process is over.
Fatal(stage, l, k) ==
    /\ pc' = "exit"
    /\ exit' = [kind |-> "fatal", stage |-> stage, lang |-> l, key |-> k]

\* Mutant of StageAfter: the save is followed by another sync.
StageAfter_SyncAgain(stage) ==
    CASE stage = "load" -> "sync"
      [] stage = "sync" -> "save"
      [] stage = "save" -> "sync"
      [] stage = "render" -> "done"

\* main: the stage that follows a stage that returned no error.
StageAfter(stage) ==
    CASE stage = "load" -> "sync"
      [] stage = "sync" -> "save"
      [] stage = "save" -> "render"
      [] stage = "render" -> "done"

ResetLoop ==
    keys' = <<>> /\ langsLeft' = {} /\ lang' = "" /\ ki' = 0 /\ ts' = <<>> /\ ei' = 0

----------------------------------------------------------------------------
(* main, stage Load.                                                       *)

LoadTranslationFile ==
    /\ pc = "load"
    /\ stages' = Append(stages, "Load")
    /\ \E opened \in BOOLEAN :
          IF opened /\ disk.state = "doc"
          THEN /\ tf' = Decode(disk.doc)
               /\ pc' = StageAfter("load")
               /\ exit' = exit
          ELSE /\ Fatal("load", "", "")
               /\ tf' = tf
    /\ UNCHANGED <<fsVars, server, cfgVars, loopVars, fetchVars, calls, skipped>>

----------------------------------------------------------------------------
(* main, stage Sync: autoTranslate and autoTranslateKeyForLang.            *)

\* Mutant of HasTranslation: what is there is not looked at.
HasTranslation_Never(t, l, key) == FALSE

\* tf.Translations[l].Translations[key] != nil
HasTranslation(t, l, key) == Lookup(t.Translations[l].Translations, key) # NilV

\* Mutant of MissingDeeplLanguage: the language code is not checked.
MissingDeeplLanguage_Unchecked(t, l) == FALSE

\* tf.Translations[l].DeeplLanguage == ""
MissingDeeplLanguage(t, l) == t.Translations[l].DeeplLanguage = ""

\* Mutant of RangeAfterSkip: the skip leaves the loop (break for continue).
RangeAfterSkip_Break(rest) == {}

\* `continue`: the range goes on with the languages it has not yielded.
RangeAfterSkip(rest) == rest

\* Mutant of AppendTranslated: the translation is put in front.
AppendTranslated_InFront(acc, text) == <<text>> \o acc

\* ts = append(ts, tStr)
AppendTranslated(acc, text) == Append(acc, text)

\* if tf.Translations[l].Translations == nil { ... = make(map[string]any) }
MakeMap(t, l) ==
    IF t.Translations[l].Translations.isNil
    THEN [t EXCEPT !.Translations[l].Translations = GoMap(<<>>)]
    ELSE t

\* Mutant of SetTranslation: the entry's map is replaced by one holding the key.
SetTranslation_FreshMap(t, l, key, v) ==
    [t EXCEPT !.Translations[l].Translations = GoMap([k \in {key} |-> v])]

\* tf.Translations[l].Translations[key] = v
SetTranslation(t, l, key, v) ==
    LET m == t.Translations[l].Translations.m IN
    [t EXCEPT !.Translations[l].Translations =
        GoMap([k \in DOMAIN m \cup {key} |-> IF k = key THEN v ELSE m[k]])]

\* autoTranslate up to the range over the languages: the API key check and
\* the collection of the reference's keys, in the order the map yields them.
AutoTranslate ==
    /\ pc = "sync"
    /\ stages' = Append(stages, "Sync")
    /\ IF apiKey = ""
       THEN /\ pc' = StageAfter("sync")
            /\ UNCHANGED loopVars
       ELSE /\ \E order \in Perms(DOMAIN tf.Reference.Translations.m) : keys' = order
            /\ langsLeft' = DOMAIN tf.Translations
            /\ pc' = "langs"
            /\ UNCHANGED <<lang, ki, ts, ei>>
    /\ UNCHANGED <<fsVars, server, cfgVars, fetchVars, exit, tf, calls, skipped>>

\* One step of `for lang := range tf.Translations`: the range is over, or it
\* yields a language, which is skipped when it has no DeeplLanguage.
NextLang ==
    /\ pc = "langs"
    /\ IF langsLeft = {}
       THEN /\ pc' = StageAfter("sync")
            /\ ResetLoop
            /\ skipped' = skipped
       ELSE \E l \in langsLeft :
              /\ IF MissingDeeplLanguage(tf, l)
                 THEN /\ skipped' = skipped \cup {l}
                      /\ langsLeft' = RangeAfterSkip(langsLeft \ {l})
                      /\ pc' = "langs"
                      /\ UNCHANGED <<lang, ki>>
                 ELSE /\ lang' = l
                      /\ langsLeft' = langsLeft \ {l}
                      /\ ki' = 1
                      /\ pc' = "keys"
                      /\ skipped' = skipped
              /\ UNCHANGED <<keys, ts, ei>>
    /\ UNCHANGED <<fsVars, server, cfgVars, fetchVars, exit, tf, calls, stages>>

\* One step of `for _, key := range keys`: the loop is over, or
\* autoTranslateKeyForLang runs up to its return or to the first element of
\* a sequence.
NextKey ==
    /\ pc = "keys"
    /\ IF ki > Len(keys)
       THEN /\ pc' = "langs"
            /\ lang' = "" /\ ki' = 0
            /\ UNCHANGED <<exit, tf, calls, server, ts, ei>>
       ELSE LET key == keys[ki]
                src == Lookup(tf.Reference.Translations, key)
                made == MakeMap(tf, lang)
            IN
            IF HasTranslation(tf, lang, key)
            THEN /\ ki' = ki + 1
                 /\ UNCHANGED <<pc, exit, tf, calls, server, lang, ts, ei>>
            ELSE IF src.t = "string"
            THEN \E r \in ServerAnswers(Request(tf.Reference.DeeplLanguage,
                                               tf.Translations[lang].DeeplLanguage, src.v)) :
                   LET got == FetchTranslation(tf.Reference.DeeplLanguage,
                                               tf.Translations[lang].DeeplLanguage, src.v, r)
                   IN
                   /\ calls' = calls \cup {<<lang, key>>}
                   /\ server' = Remember(Request(tf.Reference.DeeplLanguage,
                                                 tf.Translations[lang].DeeplLanguage, src.v), r)
                   \* the map entry is assigned together with err
                   /\ tf' = SetTranslation(made, lang, key, StringV(got.text))
                   /\ IF got.err # ""
                      THEN /\ Fatal("sync", lang, key)
                           /\ UNCHANGED <<lang, ki, ts, ei>>
                      ELSE /\ ki' = ki + 1
                           /\ UNCHANGED <<pc, exit, lang, ts, ei>>
            ELSE IF src.t = "anys"
            THEN /\ tf' = made
                 /\ ts' = <<>>
                 /\ ei' = 1
                 /\ pc' = "elems"
                 /\ UNCHANGED <<exit, calls, server, lang, ki>>
            ELSE /\ tf' = made
                 /\ Fatal("sync", lang, key)
                 /\ UNCHANGED <<calls, server, lang, ki, ts, ei>>
    /\ UNCHANGED <<fsVars, cfgVars, fetchVars, keys, langsLeft, skipped, stages>>

\* One step of `for _, str := range typedSrc`: the loop is over and ts is
\* stored, or the element is asserted to be a string and translated.
NextElem ==
    /\ pc = "elems"
    /\ LET key == keys[ki]
           src == Lookup(tf.Reference.Translations, key)
       IN
       IF ei > Len(src.elems)
       THEN /\ tf' = SetTranslation(tf, lang, key, StringsV(ts))
            /\ ts' = <<>> /\ ei' = 0
            /\ ki' = ki + 1
            /\ pc' = "keys"
            /\ UNCHANGED <<exit, calls, server, lang>>
       ELSE IF src.elems[ei].t # "string"
       THEN \* str.(string) panics
            /\ pc' = "exit"
            /\ exit' = [kind |-> "panic", stage |-> "sync", lang |-> lang, key |-> key]
            /\ UNCHANGED <<tf, calls, server, lang, ki, ts, ei>>
       ELSE \E r \in ServerAnswers(Request(tf.Reference.DeeplLanguage,
                                          tf.Translations[lang].DeeplLanguage,
                                          src.elems[ei].v)) :
              LET got == FetchTranslation(tf.Reference.DeeplLanguage,
                                          tf.Translations[lang].DeeplLanguage,
                                          src.elems[ei].v, r)
              IN
              /\ calls' = calls \cup {<<lang, key>>}
              /\ server' = Remember(Request(tf.Reference.DeeplLanguage,
                                            tf.Translations[lang].DeeplLanguage,
                                            src.elems[ei].v), r)
              /\ IF got.err # ""
                 THEN /\ Fatal("sync", lang, key)
                      /\ UNCHANGED <<ts, ei>>
                 ELSE /\ ts' = AppendTranslated(ts, got.text)
                      /\ ei' = ei + 1
                      /\ UNCHANGED <<pc, exit>>
              /\ UNCHANGED <<tf, lang, ki>>
    /\ UNCHANGED <<fsVars, cfgVars, fetchVars, keys, langsLeft, skipped, stages>>

----------------------------------------------------------------------------
(* main, stage Persist: saveTranslationFile, one file operation a step.    *)

\* os.Create(cfg.TranslationFile + ".tmp")
SaveCreate ==
    /\ pc = "save"
    /\ stages' = Append(stages, "Persist")
    /\ \E created \in BOOLEAN :
          IF created
          THEN /\ tmp' = PartialFile
               /\ pc' = "encode"
               /\ exit' = exit
          ELSE /\ Fatal("save", "", "")
               /\ tmp' = tmp
    /\ UNCHANGED <<disk, artifact, server, cfgVars, loopVars, fetchVars, tf, calls, skipped>>

\* encoder.Encode(tf); on an error the file is closed and the save returns.
SaveEncode ==
    /\ pc = "encode"
    /\ \E written \in BOOLEAN :
          IF written
          THEN /\ tmp' = DocFile(Encode(tf))
               /\ pc' = "close"
               /\ exit' = exit
          ELSE /\ Fatal("save", "", "")
               /\ tmp' = PartialFile
    /\ UNCHANGED <<disk, artifact, server, cfgVars, loopVars, fetchVars, tf, calls, skipped, stages>>

\* What the save does with the result of f.Close(): nothing, it goes on to
\* the rename.  (A failed close may have lost written data.)
AfterClose(closed) == "rename"

SaveClose ==
    /\ pc = "close"
    /\ \E closed \in BOOLEAN :
          /\ tmp' \in (IF closed THEN {tmp} ELSE {tmp, PartialFile})
          /\ pc' = AfterClose(closed)
          /\ IF pc' = "exit"
             THEN exit' = [kind |-> "fatal", stage |-> "save", lang |-> "", key |-> ""]
             ELSE exit' = exit
    /\ UNCHANGED <<disk, artifact, server, cfgVars, loopVars, fetchVars, tf, calls, skipped, stages>>

\* os.Rename(tmp, cfg.TranslationFile)
SaveRename ==
    /\ pc = "rename"
    /\ \E renamed \in BOOLEAN :
          IF renamed
          THEN /\ disk' = tmp
               /\ tmp' = NoFile
               /\ pc' = StageAfter("save")
               /\ exit' = exit
          ELSE /\ Fatal("save", "", "")
               /\ UNCHANGED <<disk, tmp>>
    /\ UNCHANGED <<artifact, server, cfgVars, loopVars, fetchVars, tf, calls, skipped, stages>>

\* The process dies between the creation of the temporary file and the rename.
Crash ==
    /\ pc \in {"encode", "close", "rename"}
    /\ pc' = "exit"
    /\ exit' = [kind |-> "crash", stage |-> "save", lang |-> "", key |-> ""]
    /\ UNCHANGED <<fsVars, server, cfgVars, loopVars, fetchVars, tf, calls, skipped, stages>>

----------------------------------------------------------------------------
(* main, stage Render: the reference is copied into tf.Translations and    *)
(* renderJSFile writes the template's output in place of cfg.OutputFile.   *)

\* json.Marshal of one value of a translation.
JSONValue(v) ==
    CASE v.t = "nil" -> [j |-> "null"]
      [] v.t = "string" -> [j |-> "string", v |-> v.v]
      [] v.t = "int" -> [j |-> "number", v |-> v.v]
      [] v.t = "anys" ->
            [j |-> "array",
             elems |-> [i \in 1..Len(v.elems) |->
                          IF v.elems[i].t = "string"
                          THEN [j |-> "string", v |-> v.elems[i].v]
                          ELSE [j |-> "number", v |-> v.elems[i].v]]]
      [] v.t = "strings" ->
            IF v.elems = <<>> THEN [j |-> "null"]
            ELSE [j |-> "array",
                  elems |-> [i \in 1..Len(v.elems) |-> [j |-> "string", v |-> v.elems[i]]]]

\* translation.ToJSON
ToJSON(tr) ==
    IF tr.isNil THEN [j |-> "null"]
    ELSE [j |-> "object", m |-> [k \in DOMAIN tr.m |-> JSONValue(tr.m[k])]]

\* tf.Translations[tf.Reference.LanguageKey] = &tf.Reference
RenderView(t) ==
    [t EXCEPT !.Translations =
        [l \in DOMAIN t.Translations \cup {t.Reference.LanguageKey} |->
            IF l = t.Reference.LanguageKey THEN t.Reference ELSE t.Translations[l]]]

RenderJSFile ==
    /\ pc = "render"
    /\ stages' = Append(stages, "Render")
    /\ tf' = RenderView(tf)
    /\ \E rendered \in BOOLEAN :
          IF rendered
          THEN /\ artifact' = [state |-> "js",
                               blocks |-> [l \in DOMAIN tf'.Translations |->
                                             ToJSON(tf'.Translations[l].Translations)]]
               /\ pc' = StageAfter("render")
               /\ exit' = exit
          ELSE /\ Fatal("render", "", "")
               /\ artifact' = artifact
    /\ UNCHANGED <<disk, tmp, server, cfgVars, loopVars, fetchVars, calls, skipped>>

----------------------------------------------------------------------------
(* The tool is run again on the dictionary file it has written.  (A run    *)
(* that ended before the rename left the dictionary file as it found it:   *)
(* the next run starts as that one did.)                                   *)

Persisted == pc = "done" \/ (pc = "exit" /\ exit.stage = "render")

Restart ==
    /\ Persisted
    /\ pc' = "load" /\ exit' = NoExit /\ tf' = Unloaded
    /\ calls' = {} /\ skipped' = {} /\ stages' = <<>>
    /\ disk0' = disk
    /\ prevSynced' = TRUE
    /\ UNCHANGED <<fsVars, apiKey, server, loopVars, fetchVars>>

Next ==
    \/ LoadTranslationFile
    \/ AutoTranslate
    \/ NextLang
    \/ NextKey
    \/ NextElem
    \/ SaveCreate
    \/ SaveEncode
    \/ SaveClose
    \/ SaveRename
    \/ Crash
    \/ RenderJSFile
    \/ Restart

Spec == Init /\ [][Next]_vars

SpecStub == InitStub /\ [][Next]_vars

----------------------------------------------------------------------------
(* fetchTranslation on its own: any request against any response.          *)

InitFetch ==
    /\ disk = NoFile /\ tmp = NoFile /\ artifact = NoFile
    /\ apiKey = "key" /\ server = AnyServer
    /\ disk0 = NoFile /\ prevSynced = FALSE
    /\ pc = "fetch" /\ exit = NoExit /\ tf = Unloaded
    /\ keys = <<>> /\ langsLeft = {} /\ lang = "" /\ ki = 0 /\ ts = <<>> /\ ei = 0
    /\ calls = {} /\ skipped = {} /\ stages = <<>>
    /\ req = NoRequest /\ resp = TransportFailure /\ ret = NoReturn

CallFetchTranslation ==
    /\ pc = "fetch"
    /\ \E s \in Langs \cup {RefLang}, d \in Langs \cup {RefLang},
          text \in {ScalarText, OldText} \cup {ElemText(i) : i \in 1..MaxSeqLen} :
          \E r \in Responses(Request(s, d, text)) :
             /\ req' = Request(s, d, text)
             /\ resp' = r
             /\ ret' = FetchTranslation(s, d, text, r)
    /\ UNCHANGED <<fsVars, server, cfgVars, loopVars, pc, exit, tf, calls, skipped, stages>>

SpecFetch == InitFetch /\ [][CallFetchTranslation]_vars

----------------------------------------------------------------------------
(* What the properties talk about.                                         *)

Pipeline == <<"Load", "Sync", "Persist", "Render">>

Started(stage) == \E i \in 1..Len(stages) : stages[i] = stage

\* The translationFile the process loaded.
Loaded == tf # Unloaded
D0 == Decode(disk0.doc)

\* autoTranslate returned nil in this process.
SyncReturned ==
    /\ Started("Sync")
    /\ pc \notin {"langs", "keys", "elems"}
    /\ exit.stage # "sync"

\* autoTranslate ended with an error or a panic in this process.
SyncAborted == exit.stage = "sync"

RefKeys(d) == DOMAIN d.Reference.Translations.m
RefValue(d, k) == d.Reference.Translations.m[k]
EntryMap(d, l) == d.Translations[l].Translations.m

Configured(d, l) == d.Translations[l].DeeplLanguage # ""

\* The key holds a value in the entry / holds none (no map, no key, null).
Set(d, l, k) == k \in DOMAIN EntryMap(d, l) /\ EntryMap(d, l)[k].t # "nil"
Unset(d, l, k) == ~Set(d, l, k)

\* What the translation client answers for a reference text and language l.
TranslationOf(d, l, text) ==
    <<ToUpper(d.Translations[l].DeeplLanguage), text[2]>>

MatchesReference(v, src, d, l) ==
    \/ /\ src.t = "string"
       /\ v.t = "string"
       /\ v.v = TranslationOf(d, l, src.v)
    \/ /\ src.t = "anys"
       /\ v.t = "strings"
       /\ Len(v.elems) = Len(src.elems)
       /\ \A i \in 1..Len(src.elems) :
             /\ src.elems[i].t = "string"
             /\ v.elems[i] = TranslationOf(d, l, src.elems[i].v)

\* The <<language, key>> a sync has to fill.
Todo(d) ==
    {p \in Langs \X RefKeys(d) : Configured(d, p[1]) /\ Unset(d, p[1], p[2])}

Supported(v) ==
    \/ v.t = "string"
    \/ v.t = "anys" /\ \A i \in 1..Len(v.elems) : v.elems[i].t = "string"

----------------------------------------------------------------------------
(* C1 *)

\* C1: when autoTranslate has returned nil with an API key configured, every
\* reference key that was unset in a target entry with a language code is
\* set there, to a string holding the translation of the reference string,
\* or to a string sequence as long as the reference sequence whose element i
\* is the translation of reference element i.
C1_MissingKeysFilledLikeReference ==
    LET d == D0 IN
    (SyncReturned /\ apiKey # "") =>
        \A l \in Langs : Configured(d, l) =>
            \A k \in RefKeys(d) : Unset(d, l, k) =>
                /\ Set(tf, l, k)
                /\ MatchesReference(EntryMap(tf, l)[k], RefValue(d, k), d, l)

\* A sync has filled a two-element sequence and a string into an entry that
\* had no map.
C1_Witness ==
    LET d == D0 IN
    /\ SyncReturned /\ apiKey # "" /\ ~prevSynced
    /\ \E l \in Langs, k, k2 \in Keys :
          /\ Configured(d, l)
          /\ d.Translations[l].Translations.isNil
          /\ k \in RefKeys(d) /\ k2 \in RefKeys(d)
          /\ RefValue(d, k).t = "anys" /\ Len(RefValue(d, k).elems) = 2
          /\ RefValue(d, k2).t = "string"
          /\ Set(tf, l, k) /\ EntryMap(tf, l)[k].t = "strings"
          /\ Set(tf, l, k2)

----------------------------------------------------------------------------
(* C2 *)

\* C2: once autoTranslate has failed (an error of a translation call, of the
\* type switch, or a panic), the persist stage has not run and never runs:
\* the dictionary file is the one the process found and no temporary file
\* was written.
C2_SyncFailureNeverPersists ==
    SyncAborted =>
        /\ disk = disk0
        /\ tmp = NoFile
        /\ ~Started("Persist")
        /\ pc = "exit"

\* A call failed on the second element of a sequence, after another key of
\* the run had been filled.
C2_Witness ==
    /\ SyncAborted /\ exit.kind = "fatal"
    /\ Len(ts) = 1
    /\ \E p \in calls : p # <<exit.lang, exit.key>> /\ Set(tf, p[1], p[2])
    /\ disk = disk0

----------------------------------------------------------------------------
(* C3 *)

\* C3: in a run on the dictionary file a previous run synced and persisted,
\* autoTranslate calls fetchTranslation for nothing, does not fail, and
\* returns with the translationFile as it was loaded.
C3_SecondSyncChangesNothing ==
    LET d == D0 IN
    prevSynced =>
        /\ calls = {}
        /\ ~SyncAborted
        /\ (SyncReturned /\ ~Started("Render")) => tf = d

\* The second run has gone through its sync on a dictionary in which the
\* first run stored an empty sequence (a target entry of the first run's
\* input never holds a sequence).
C3_Witness ==
    LET d == D0 IN
    /\ prevSynced /\ apiKey # "" /\ SyncReturned
    /\ \E l \in Langs, k \in Keys :
          /\ Configured(d, l)
          /\ k \in RefKeys(d)
          /\ RefValue(d, k) = AnysV(<<>>)
          /\ Set(d, l, k)
          /\ EntryMap(d, l)[k] = AnysV(<<>>)

----------------------------------------------------------------------------
(* C4 *)

\* autoTranslate ended at a key whose reference value is no string and no
\* sequence of strings, at the place where the type is looked at.
TypeFailure ==
    /\ SyncAborted
    /\ LET src == RefValue(D0, exit.key) IN
          \/ src.t \notin {"string", "anys"}
          \/ /\ src.t = "anys"
             /\ ei \in 1..Len(src.elems)
             /\ src.elems[ei].t # "string"

\* C4: a type mismatch (a reference value that is neither a string nor a
\* sequence of strings, under a key missing in the entry) ends the sync
\* with a returned error that names the key.
C4_TypeMismatchReturnsError ==
    TypeFailure => exit.kind = "fatal" /\ exit.key \in RefKeys(D0)

----------------------------------------------------------------------------
(* C5 *)

\* C5: the dictionary file never holds a partially written document,
\* whichever step of saveTranslationFile fails.
C5_DictionaryNeverPartial == disk.state = "doc"

----------------------------------------------------------------------------
(* C6 *)

\* C6: whatever the run does, every key that held a value in a target entry
\* when the file was loaded (stale keys included) holds the same value in
\* memory and in the dictionary file, no fetchTranslation was called for
\* it, and the reference entry is the loaded one.  (A key written with a
\* null is unset: it holds no value, and the sync fills it.)
C6_SetKeysAndReferenceUntouched ==
    LET d == D0 IN
    Loaded =>
        /\ tf.Reference = d.Reference
        /\ \A l \in Langs : \A k \in DOMAIN EntryMap(d, l) :
              Set(d, l, k) =>
                 /\ Set(tf, l, k)
                 /\ EntryMap(tf, l)[k] = EntryMap(d, l)[k]
                 /\ <<l, k>> \notin calls
                 /\ (disk.state = "doc" =>
                       /\ k \in DOMAIN disk.doc.translations[l].translations.m
                       /\ disk.doc.translations[l].translations.m[k]
                            = disk0.doc.translations[l].translations.m[k])

\* A sync has filled a key, written with a null, of an entry that holds a
\* stale key, and the result was persisted.
C6_Witness ==
    LET d == D0 IN
    /\ Loaded /\ SyncReturned /\ Started("Render") /\ disk.state = "doc"
    /\ \E l \in Langs, k, k2 \in Keys :
          /\ k \notin RefKeys(d)
          /\ Set(d, l, k)
          /\ k2 \in DOMAIN EntryMap(d, l)
          /\ <<l, k2>> \in calls

----------------------------------------------------------------------------
(* C7 *)

\* C7: fetchTranslation returns a text without an error only when the
\* transport succeeded, the status was a success status and the body held
\* exactly one translation; in every other case it returns an error and the
\* empty text.
C7_TextOnlyFromSuccessfulResponse ==
    ret # NoReturn =>
        LET good == /\ resp.transport = "ok"
                    /\ resp.status = 200
                    /\ resp.json
                    /\ Len(resp.texts) = 1
        IN IF good
           THEN ret.err = "" /\ ret.text = resp.texts[1]
           ELSE ret.err # "" /\ ret.text = EmptyText

----------------------------------------------------------------------------
(* C8 *)

StageOf(st) ==
    CASE st = "load" -> "Load"
      [] st = "sync" -> "Sync"
      [] st = "save" -> "Persist"
      [] st = "render" -> "Render"
      [] OTHER -> "none"

\* C8: the stages a process has started are a prefix of Load, Sync, Persist,
\* Render (in this order, each at most once); a stage is started only when
\* every stage before it has returned without an error; and when a stage has
\* failed the process is over, that stage being the last one started.
C8_LinearPipeline ==
    /\ Len(stages) <= Len(Pipeline)
    /\ \A i \in 1..Len(stages) : stages[i] = Pipeline[i]
    /\ exit.kind # "none" =>
          /\ pc = "exit"
          /\ stages # <<>>
          /\ stages[Len(stages)] = StageOf(exit.stage)
    /\ pc = "load" => stages = <<>>
    /\ pc \in {"sync"} => Len(stages) = 1 /\ Loaded
    /\ pc \in {"langs", "keys", "elems", "save"} => Len(stages) = 2
    /\ pc \in {"encode", "close", "rename", "render"} => Len(stages) = 3
    /\ pc = "done" => stages = Pipeline

\* A process has gone through all four stages.
C8_Witness == pc = "done" /\ stages = Pipeline /\ calls # {}

----------------------------------------------------------------------------
(* C9 *)

\* C9: for a target entry without DeeplLanguage no fetchTranslation is
\* called, the entry stays as loaded, no error names it, and when
\* autoTranslate has returned nil (API key configured) the entry was
\* skipped and every entry with a DeeplLanguage has all reference keys set.
C9_EntryWithoutCodeSkipped ==
    LET d == D0 IN
    Loaded =>
        \A l \in Langs : ~Configured(d, l) =>
            /\ \A k \in Keys : <<l, k>> \notin calls
            /\ tf.Translations[l] = d.Translations[l]
            /\ exit.lang # l
            /\ (SyncReturned /\ apiKey # "") =>
                  /\ l \in skipped
                  /\ \A l2 \in Langs : Configured(d, l2) =>
                        \A k \in RefKeys(d) : Set(tf, l2, k)

\* An entry without code that lacks a reference key was skipped, and the
\* other entry was filled in the same run.
C9_Witness ==
    LET d == D0 IN
    /\ Loaded /\ SyncReturned /\ apiKey # ""
    /\ \E l, l2 \in Langs, k \in Keys :
          /\ l \in skipped
          /\ k \in RefKeys(d) /\ Unset(d, l, k) /\ Unset(tf, l, k)
          /\ <<l2, k>> \in calls /\ Set(tf, l2, k)

----------------------------------------------------------------------------
(* C10 *)

\* The texts of a reference value.
RefTexts(v) ==
    IF v.t = "string" THEN {v.v}
    ELSE IF v.t = "anys"
         THEN {v.elems[i].v : i \in {j \in 1..Len(v.elems) : v.elems[j].t = "string"}}
         ELSE {}

TypeTrouble(d) == \E p \in Todo(d) : ~Supported(RefValue(d, p[2]))

NeededRequests(d) ==
    UNION {{[src |-> ToUpper(d.Reference.DeeplLanguage),
             dest |-> ToUpper(d.Translations[p[1]].DeeplLanguage),
             text |-> t] : t \in RefTexts(RefValue(d, p[2]))} : p \in Todo(d)}

\* The stub has answered the request with an error.
StubDown(rq) == \E p \in server.memo : p[1] = rq /\ p[2].status # 200

FilledValue(d, l, k) ==
    LET src == RefValue(d, k) IN
    IF src.t = "string" THEN StringV(TranslationOf(d, l, src.v))
    ELSE StringsV([i \in 1..Len(src.elems) |-> TranslationOf(d, l, src.elems[i].v)])

\* The translationFile with everything of Todo filled.
Merged(d) ==
    [d EXCEPT !.Translations =
        [l \in DOMAIN d.Translations |->
            IF \E k \in RefKeys(d) : <<l, k>> \in Todo(d)
            THEN [d.Translations[l] EXCEPT !.Translations =
                    GoMap([k \in DOMAIN EntryMap(d, l) \cup {q \in RefKeys(d) : <<l, q>> \in Todo(d)} |->
                             IF <<l, k>> \in Todo(d) THEN FilledValue(d, l, k)
                             ELSE EntryMap(d, l)[k]])]
            ELSE d.Translations[l]]]

Outcome(d) == IF apiKey = "" THEN d ELSE Merged(d)

\* What decides, whatever the order, that the sync aborts.
MustAbort(d) ==
    /\ apiKey # ""
    /\ \/ TypeTrouble(d)
       \/ \E rq \in NeededRequests(d) : StubDown(rq)

\* C10: against a stub whose answer depends on the request alone, how a run
\* ends is a function of the dictionary and the stub, not of the order in
\* which languages and keys are visited: the sync aborts, with the
\* dictionary file unchanged, only if a value to fill has an unsupported
\* type or the stub is down for a needed request; and it returns, with the
\* same merged translationFile (which is what the rename puts in place),
\* only if neither is the case.
C10_OutcomeIndependentOfOrder ==
    LET d == D0 IN
    /\ SyncAborted => MustAbort(d) /\ disk = disk0
    /\ SyncReturned =>
          /\ ~MustAbort(d)
          /\ ~Started("Render") => tf = Outcome(d)
          /\ (Started("Render") /\ disk.state = "doc") => disk.doc = Encode(Outcome(d))

\* Both entries had both keys to fill, so the four visiting orders differ,
\* and the run has persisted its result.
C10_Witness ==
    /\ pc = "done" /\ apiKey # "" /\ ~prevSynced /\ disk.state = "doc"
    /\ Cardinality(calls) = 4

====
